---- MODULE Spec2Model ----
(***************************************************************************)
(* whisper_wer.py: matching of an audio tree and a transcript tree         *)
(* (DataProcessor -> Session -> Participant -> Record) and the sorted WER  *)
(* report built from the matched records.                                  *)
(*                                                                         *)
(* Python strings are TLA+ strings; the character at position i of s is    *)
(* SubSeq(s, i, i).  A path is the string the code builds with             *)
(* os.path.join.  The file system maps each directory's path to the names  *)
(* of its entries.                                                         *)
(***************************************************************************)
EXTENDS Integers, Sequences, FiniteSets, TLC

VARIABLES
    fs,           \* the two trees: the path of each directory -> the names of its entries
    failing,      \* the audio paths whose scoring raises although the files exist
    sessionHeap,  \* the Session objects get_sessions has handed out, each with the
                  \* Participant objects it owns; a Session's id is its index
    files,        \* the report files: path -> <<>> (no file) or <<lines>>
    ret,          \* the last step: the call made and what it returned (for process
                  \* also the records it scored, the files before it and the outcome
                  \* of the call before it), or a change of the trees
    hist,         \* history: what the first call of each getter returned, per object
    prevProc      \* history: the outcome of the latest process call on the present trees

vars == <<fs, failing, sessionHeap, files, ret, hist, prevProc>>

(***************************************************************************)
(* Bounds of the model.                                                    *)
(***************************************************************************)
\* the largest number of entries of one item-level directory in Init
MaxFiles == 2
\* get_sessions is called while fewer than this many Session objects exist
MaxSessions == 2

(***************************************************************************)
(* Python's str and list operations.                                       *)
(***************************************************************************)
None == <<>>
Some(v) == <<v>>

\* the characters the model uses, in increasing code point order
CodePoints == " %()-./0123456789:ABCDEFGHIJKLMNOPQRSTUVWXYZ_abcdefghijklmnopqrstuvwxyz"

Ord(c) == CHOOSE i \in 1..Len(CodePoints) : SubSeq(CodePoints, i, i) = c

Min(S) == CHOOSE x \in S : \A y \in S : x <= y
Max(S) == CHOOSE x \in S : \A y \in S : y <= x

\* a < b for two str: the first differing character decides, a proper prefix is smaller
StrLess(a, b) ==
    LET n == IF Len(a) < Len(b) THEN Len(a) ELSE Len(b)
        diff == {i \in 1..n : SubSeq(a, i, i) # SubSeq(b, i, i)}
    IN IF diff = {} THEN Len(a) < Len(b)
       ELSE Ord(SubSeq(a, Min(diff), Min(diff))) < Ord(SubSeq(b, Min(diff), Min(diff)))

\* s.startswith(p)
startswith(s, p) == Len(s) >= Len(p) /\ SubSeq(s, 1, Len(p)) = p

\* p in s
contains(p, s) == \E i \in 1..(Len(s) - Len(p) + 1) : SubSeq(s, i, i + Len(p) - 1) = p

\* s.split(sep)[0], sep one character
split_first(s, sep) ==
    LET at == {i \in 1..Len(s) : SubSeq(s, i, i) = sep}
    IN IF at = {} THEN s ELSE SubSeq(s, 1, Min(at) - 1)

\* s.split(sep)[-1], sep one character
split_last(s, sep) ==
    LET at == {i \in 1..Len(s) : SubSeq(s, i, i) = sep}
    IN IF at = {} THEN s ELSE SubSeq(s, Max(at) + 1, Len(s))

\* os.path.join(a, b) for a relative b
os_path_join(a, b) ==
    IF a = "" THEN b
    ELSE IF SubSeq(a, Len(a), Len(a)) = "/" THEN a \o b
    ELSE a \o "/" \o b

\* os.path.dirname(p): what precedes the last "/"
os_path_dirname(p) ==
    LET at == {i \in 1..Len(p) : SubSeq(p, i, i) = "/"}
    IN IF at = {} THEN "" ELSE SubSeq(p, 1, Max(at) - 1)

\* os.listdir(folder): the names of the entries directly inside folder
os_listdir(folder) == fs[folder]

\* os.path.exists(path)
os_path_exists(path) ==
    /\ os_path_dirname(path) \in DOMAIN fs
    /\ split_last(path, "/") \in fs[os_path_dirname(path)]

Range(s) == {s[i] : i \in 1..Len(s)}

RECURSIVE sorted(_)
\* sorted(S) of a collection of distinct str
sorted(S) ==
    IF S = {} THEN <<>>
    ELSE LET m == CHOOSE x \in S : \A y \in S : x = y \/ StrLess(x, y)
         IN <<m>> \o sorted(S \ {m})

RECURSIVE insert_sorted(_, _)
insert_sorted(x, s) ==
    IF s = <<>> THEN <<x>>
    ELSE IF StrLess(x, Head(s)) THEN <<x>> \o s
    ELSE <<Head(s)>> \o insert_sorted(x, Tail(s))

RECURSIVE list_sort(_)
\* list.sort() of a list of str, repeated elements kept
list_sort(s) == IF s = <<>> THEN <<>> ELSE insert_sorted(Head(s), list_sort(Tail(s)))

RECURSIVE Flatten(_)
Flatten(ss) == IF ss = <<>> THEN <<>> ELSE Head(ss) \o Flatten(Tail(ss))

\* every order in which the elements of a set can be listed: list(set)
Enumerations(S) ==
    {f \in [1..Cardinality(S) -> S] : \A i, j \in 1..Cardinality(S) : f[i] = f[j] => i = j}

RECURSIVE decimal(_)
\* str(n) for n >= 0
decimal(n) ==
    IF n < 10 THEN SubSeq("0123456789", n + 1, n + 1)
    ELSE decimal(n \div 10) \o SubSeq("0123456789", (n % 10) + 1, (n % 10) + 1)

(***************************************************************************)
(* Record.                                                                 *)
(***************************************************************************)
Record_init(audio_record_path, transcript_record_path) ==
    [audio_path |-> audio_record_path, transcript_path |-> transcript_record_path]

record_name(self) == split_first(split_last(self.audio_path, "/"), ".")

\* Record.cal_wer with the collaborators' answers read off the environment: None
\* when transcribing, reading the document or jiwer raises (a file that does not
\* exist, or one of the failing audio paths), else the error rate times 10000 (so
\* that the two decimals of the percentage are exact)
cal_wer(self) ==
    IF \/ ~os_path_exists(self.audio_path)
       \/ ~os_path_exists(self.transcript_path)
       \/ self.audio_path \in failing
    THEN None
    ELSE IF record_name(self) = "item1" THEN Some(1234)
    ELSE IF record_name(self) = "item2" THEN Some(0)
    ELSE Some(10000)

\* f"{x * 100:.2f}%" for x = w / 10000
percent_2f(w) ==
    decimal(w \div 100) \o "." \o decimal((w % 100) \div 10) \o decimal(w % 10) \o "%"

\* Record.wer_output, defined when cal_wer does not raise
wer_output(self) ==
    record_name(self) \o " - Word Error Rate (WER): " \o percent_2f(cal_wer(self)[1])

(***************************************************************************)
(* Participant.                                                            *)
(***************************************************************************)
Participant_init(audio_folder, transcript_folder) ==
    [audio_foler |-> audio_folder, transcript_foler |-> transcript_folder, records |-> <<>>]

ExcludePattern == "_ASA24_"

get_transcript_files(self) ==
    sorted({f \in os_listdir(self.transcript_foler) : ~startswith(f, ".")})

\* variant: get_audio_files without the exclude_pattern test
get_audio_files_unfiltered(self, exclude_pattern) ==
    sorted({f \in os_listdir(self.audio_foler) : ~startswith(f, ".")})

get_audio_files(self, exclude_pattern) ==
    sorted({f \in os_listdir(self.audio_foler) :
                ~contains(exclude_pattern, f) /\ ~startswith(f, ".")})

\* variant: the basenames of either side instead of those of both
common_union(transcripts, audios) ==
    sorted({split_first(t, ".") : t \in Range(transcripts)}
           \cup {split_first(a, ".") : a \in Range(audios)})

\* the sorted common basenames of get_records
common(transcripts, audios) ==
    sorted({split_first(t, ".") : t \in Range(transcripts)}
           \cap {split_first(a, ".") : a \in Range(audios)})

\* the list get_records builds when it has nothing cached
Participant_records(self) ==
    LET c == common(get_transcript_files(self), get_audio_files(self, ExcludePattern))
    IN [i \in 1..Len(c) |->
           Record_init(os_path_join(self.audio_foler, c[i] \o ".wav"),
                       os_path_join(self.transcript_foler, c[i] \o ".docx"))]

(***************************************************************************)
(* Session.                                                                *)
(***************************************************************************)
Session_init(audio_folder, transcript_folder) ==
    [audio_folder |-> audio_folder, transcript_folder |-> transcript_folder,
     participants |-> <<>>]

Session_name(self) == split_last(self.audio_folder, "/")

get_participant_audio_folders(self) ==
    sorted({d \in os_listdir(self.audio_folder) : ~startswith(d, ".")})

get_participant_transcript_folders(self) ==
    sorted({d \in os_listdir(self.transcript_folder) : ~startswith(d, ".")})

\* variant: the intersection of the unfiltered listings
participant_names_unfiltered(self) ==
    os_listdir(self.audio_folder) \cap os_listdir(self.transcript_folder)

\* set(participant_audios) & set(participant_transcripts) of get_participants
participant_names(self) ==
    Range(get_participant_audio_folders(self))
        \cap Range(get_participant_transcript_folders(self))

\* the Participant objects get_participants constructs, listed in a given order
Session_participants(self, order) ==
    [i \in 1..Len(order) |->
        Participant_init(os_path_join(self.audio_folder, order[i]),
                         os_path_join(self.transcript_folder, order[i]))]

(***************************************************************************)
(* DataProcessor.                                                          *)
(***************************************************************************)
AudioFolder == "data/audios"
TranscriptFolder == "data/transcripts"

\* variant: the session names in decreasing order
session_names_reversed ==
    LET s == sorted({sn \in os_listdir(AudioFolder) \cap os_listdir(TranscriptFolder) :
                        ~startswith(sn, ".")})
    IN [i \in 1..Len(s) |-> s[Len(s) + 1 - i]]

\* session_names of get_sessions
session_names ==
    sorted({sn \in os_listdir(AudioFolder) \cap os_listdir(TranscriptFolder) :
               ~startswith(sn, ".")})

\* the list of Session objects get_sessions constructs
DataProcessor_sessions ==
    LET names == session_names
    IN [i \in 1..Len(names) |->
           Session_init(os_path_join(AudioFolder, names[i]),
                        os_path_join(TranscriptFolder, names[i]))]

\* the output_file process uses; "" stands for None
output_path(output_file) ==
    IF output_file = "" THEN os_path_join(os_path_dirname(AudioFolder), "output.txt")
    ELSE output_file

\* the orders in which the participants of each of the sessions can be enumerated
ParticipantOrders(sessions) ==
    LET enums == [i \in 1..Len(sessions) |-> Enumerations(participant_names(sessions[i]))]
    IN {po \in [1..Len(sessions) -> UNION Range(enums)] :
           \A i \in 1..Len(sessions) : po[i] \in enums[i]}

\* the records the three nested loops of process visit, in the order they visit them
process_records(sessions, po) ==
    Flatten([i \in 1..Len(sessions) |->
        LET ps == Session_participants(sessions[i], po[i])
        IN Flatten([j \in 1..Len(ps) |-> Participant_records(ps[j])])])

\* the records wer_output is called on: up to the first one whose scoring raises
scored_records(recs) ==
    LET bad == {i \in 1..Len(recs) : cal_wer(recs[i]) = None}
    IN IF bad = {} THEN recs ELSE SubSeq(recs, 1, Min(bad))

\* variant: process without res.sort()
res_unsorted(res) == res

\* variant: sorting that drops repeated lines
res_sort_unique(res) == sorted(Range(res))

\* res.sort()
res_sort(res) == list_sort(res)

\* variant: the lines written as they are produced, also when a later record raises
report_files_streamed(output_file, write_to_file, raised, res) ==
    IF write_to_file THEN [files EXCEPT ![output_path(output_file)] = Some(res)] ELSE files

\* the report files after process: written only when the loops completed
report_files(output_file, write_to_file, raised, res) ==
    IF ~raised /\ write_to_file
    THEN [files EXCEPT ![output_path(output_file)] = Some(res)]
    ELSE files

(***************************************************************************)
(* The calls a client can make.                                            *)
(***************************************************************************)
\* DataProcessor.get_sessions(): new Session objects on every call
get_sessions ==
    \E new \in {DataProcessor_sessions} :
        /\ Len(sessionHeap) < MaxSessions
        /\ sessionHeap' = sessionHeap \o new
        /\ ret' = [op |-> "get_sessions",
                   val |-> [i \in 1..Len(new) |-> Len(sessionHeap) + i]]
        /\ hist' = [hist EXCEPT
                      !.sessions = IF @ = None
                                   THEN Some([i \in 1..Len(new) |-> Len(sessionHeap) + i])
                                   ELSE @,
                      !.participants = @ \o [i \in 1..Len(new) |-> None],
                      !.records = @ \o [i \in 1..Len(new) |-> <<>>]]
        /\ UNCHANGED <<fs, failing, files, prevProc>>

\* Session.get_participants() of the Session object s; a Participant is named by
\* its Session and its place in the Session's list
get_participants(s) ==
    IF sessionHeap[s].participants # <<>>
    THEN /\ ret' = [op |-> "get_participants", self |-> s,
                    val |-> [j \in 1..Len(sessionHeap[s].participants) |-> <<s, j>>]]
         /\ UNCHANGED <<fs, failing, sessionHeap, files, hist, prevProc>>
    ELSE \E order \in Enumerations(participant_names(sessionHeap[s])) :
         /\ sessionHeap' = [sessionHeap EXCEPT
                              ![s].participants = Session_participants(sessionHeap[s], order)]
         /\ ret' = [op |-> "get_participants", self |-> s,
                    val |-> [j \in 1..Len(order) |-> <<s, j>>]]
         /\ hist' = [hist EXCEPT
                       !.participants[s] =
                           IF @ = None THEN Some([j \in 1..Len(order) |-> <<s, j>>]) ELSE @,
                       !.records[s] = [j \in 1..Len(order) |-> None]]
         /\ UNCHANGED <<fs, failing, files, prevProc>>

\* Participant.get_records() of the j-th Participant of the Session object s
get_records(s, j) ==
    IF sessionHeap[s].participants[j].records # <<>>
    THEN /\ ret' = [op |-> "get_records", self |-> <<s, j>>,
                    val |-> sessionHeap[s].participants[j].records]
         /\ UNCHANGED <<fs, failing, sessionHeap, files, hist, prevProc>>
    ELSE \E new \in {Participant_records(sessionHeap[s].participants[j])} :
         /\ sessionHeap' = [sessionHeap EXCEPT ![s].participants[j].records = new]
         /\ ret' = [op |-> "get_records", self |-> <<s, j>>, val |-> new]
         /\ hist' = [hist EXCEPT !.records[s][j] = IF @ = None THEN Some(new) ELSE @]
         /\ UNCHANGED <<fs, failing, files, prevProc>>

\* DataProcessor.process(output_file, write_to_file); the Session objects it gets
\* from get_sessions are its own and are dropped when it returns
process(output_file, write_to_file) ==
    \E sessions \in {DataProcessor_sessions} :
    \E po \in ParticipantOrders(sessions) :
    \E scored \in {scored_records(process_records(sessions, po))} :
    \E raised \in {scored # <<>> /\ cal_wer(scored[Len(scored)]) = None} :
    \E res \in {res_sort([i \in 1..(Len(scored) - (IF raised THEN 1 ELSE 0)) |->
                             wer_output(scored[i])])} :
        /\ files' = report_files(output_file, write_to_file, raised, res)
        /\ ret' = [op |-> "process", output_file |-> output_file,
                   write_to_file |-> write_to_file, po |-> po, raised |-> raised,
                   scored |-> scored,
                   val |-> IF raised THEN <<>> ELSE res,
                   before |-> files, prev |-> prevProc]
        /\ prevProc' = Some([po |-> po, raised |-> raised,
                             val |-> IF raised THEN <<>> ELSE res])
        /\ UNCHANGED <<fs, failing, sessionHeap, hist>>

(***************************************************************************)
(* The environment: entries appear in and disappear from the trees while   *)
(* the objects live.  Directories are only created, so the folder of an    *)
(* object never disappears (os.listdir would raise).                       *)
(***************************************************************************)
add_file(folder, name) ==
    /\ folder \in DOMAIN fs
    /\ name \notin fs[folder]
    /\ fs' = [fs EXCEPT ![folder] = @ \cup {name}]
    /\ ret' = [op |-> "add_file"]
    /\ prevProc' = None
    /\ UNCHANGED <<failing, sessionHeap, files, hist>>

remove_file(folder, name) ==
    /\ folder \in DOMAIN fs
    /\ name \in fs[folder]
    /\ fs' = [fs EXCEPT ![folder] = @ \ {name}]
    /\ ret' = [op |-> "remove_file"]
    /\ prevProc' = None
    /\ UNCHANGED <<failing, sessionHeap, files, hist>>

mkdir(folder, name) ==
    /\ folder \in DOMAIN fs
    /\ name \notin fs[folder]
    /\ fs' = [d \in DOMAIN fs \cup {os_path_join(folder, name)} |->
                 IF d = folder THEN fs[d] \cup {name}
                 ELSE IF d \in DOMAIN fs THEN fs[d] ELSE {}]
    /\ ret' = [op |-> "mkdir"]
    /\ prevProc' = None
    /\ UNCHANGED <<failing, sessionHeap, files, hist>>

(***************************************************************************)
(* The directory trees the model starts from.                              *)
(***************************************************************************)
SessionNames == {"S1", "S2", ".S"}
ParticipantNames == {"P1", "P2", ".P"}
AudioFileNames ==
    {"item1.wav", "item2.wav", "item1_ASA24_.wav", ".item1.wav", "item1.mp3", "a.b.wav"}
TranscriptFileNames ==
    {"item1.docx", "item3.docx", "item1_ASA24_.docx", ".item1.docx", "a.docx"}
OutputFiles == {"", "report.txt"}
FailingChoices == {{}, {"data/audios/S1/P1/item2.wav"}}

\* the items each participant directory of a fixed tree holds
ItemsOf(p) ==
    IF p = "P1" THEN {"item1", "item2"} ELSE IF p = "P2" THEN {"item2"} ELSE {"item1"}

Folder(root, s, p) == os_path_join(os_path_join(root, s), p)

\* the tree with the given entries: those up to the participant level are directories
TreeOf(paths) ==
    [d \in {AudioFolder, TranscriptFolder}
           \cup {p \in paths : Cardinality({i \in 1..Len(p) : SubSeq(p, i, i) = "/"}) <= 3} |->
        {split_last(e, "/") : e \in {x \in paths : os_path_dirname(x) = d}}]

\* one session, one participant, every choice of the two item listings
ItemTrees ==
    {TreeOf({os_path_join(AudioFolder, "S1"), os_path_join(TranscriptFolder, "S1"),
             Folder(AudioFolder, "S1", "P1"), Folder(TranscriptFolder, "S1", "P1")}
            \cup {os_path_join(Folder(AudioFolder, "S1", "P1"), a) : a \in A}
            \cup {os_path_join(Folder(TranscriptFolder, "S1", "P1"), t) : t \in T}) :
        A \in {X \in SUBSET AudioFileNames : Cardinality(X) <= MaxFiles},
        T \in {X \in SUBSET TranscriptFileNames : Cardinality(X) <= MaxFiles}}

\* one session, every choice of the two participant listings, fixed items
ParticipantTrees ==
    {TreeOf({os_path_join(AudioFolder, "S1"), os_path_join(TranscriptFolder, "S1")}
            \cup UNION {{Folder(AudioFolder, "S1", p)}
                        \cup {os_path_join(Folder(AudioFolder, "S1", p), i \o ".wav") :
                                 i \in ItemsOf(p)} : p \in A}
            \cup UNION {{Folder(TranscriptFolder, "S1", p)}
                        \cup {os_path_join(Folder(TranscriptFolder, "S1", p), i \o ".docx") :
                                 i \in ItemsOf(p)} : p \in T}) :
        A \in SUBSET ParticipantNames, T \in SUBSET ParticipantNames}

\* every choice of the two session listings, one participant with fixed items
SessionTrees ==
    {TreeOf(UNION {{os_path_join(AudioFolder, s), Folder(AudioFolder, s, "P1")}
                   \cup {os_path_join(Folder(AudioFolder, s, "P1"), i \o ".wav") :
                            i \in ItemsOf("P1")} : s \in A}
            \cup UNION {{os_path_join(TranscriptFolder, s), Folder(TranscriptFolder, s, "P1")}
                        \cup {os_path_join(Folder(TranscriptFolder, s, "P1"), i \o ".docx") :
                                 i \in ItemsOf("P1")} : s \in T}) :
        A \in SUBSET SessionNames, T \in SUBSET SessionNames}

\* the report files before the first call: none, or an older report
ReportFiles ==
    {[f \in {output_path(o) : o \in OutputFiles} |-> IF f \in old THEN Some(<<"old">>) ELSE None] :
        old \in {{}, {"report.txt"}}}

InitObjects ==
    /\ sessionHeap = <<>>
    /\ ret = [op |-> "none"]
    /\ hist = [sessions |-> None, participants |-> <<>>, records |-> <<>>]
    /\ prevProc = None

(***************************************************************************)
(* Spec: the three getters on trees that do not change.                    *)
(***************************************************************************)
Init ==
    /\ fs \in ItemTrees \cup ParticipantTrees \cup SessionTrees
    /\ failing = {}
    /\ files = [f \in {output_path(o) : o \in OutputFiles} |-> None]
    /\ InitObjects

Next ==
    \/ get_sessions
    \/ \E s \in 1..Len(sessionHeap) : get_participants(s)
    \/ \E s \in 1..Len(sessionHeap) :
           \E j \in 1..Len(sessionHeap[s].participants) : get_records(s, j)

Spec == Init /\ [][Next]_vars

(***************************************************************************)
(* SpecProcess: process on trees that do not change.                       *)
(***************************************************************************)
InitProcess ==
    /\ fs \in ItemTrees \cup ParticipantTrees \cup SessionTrees
    /\ failing \in {f \in FailingChoices : \A a \in f : os_path_exists(a)}
    /\ files \in ReportFiles
    /\ InitObjects

NextProcess == \E o \in OutputFiles, w \in BOOLEAN : process(o, w)

SpecProcess == InitProcess /\ [][NextProcess]_vars

(***************************************************************************)
(* SpecEnv: the three getters while the trees change.                      *)
(***************************************************************************)
ChangingFiles ==
    {<<Folder(AudioFolder, "S1", "P1"), "item1.wav">>,
     <<Folder(TranscriptFolder, "S1", "P1"), "item1.docx">>}
NewDirectories ==
    {<<os_path_join(TranscriptFolder, "S1"), "P1">>, <<AudioFolder, "S2">>}

InitEnv ==
    /\ fs = TreeOf({os_path_join(AudioFolder, "S1"), os_path_join(TranscriptFolder, "S1"),
                    Folder(AudioFolder, "S1", "P1"), os_path_join(TranscriptFolder, "S2")})
    /\ failing = {}
    /\ files = [f \in {output_path(o) : o \in OutputFiles} |-> None]
    /\ InitObjects

NextEnv ==
    \/ get_sessions
    \/ \E s \in 1..Len(sessionHeap) : get_participants(s)
    \/ \E s \in 1..Len(sessionHeap) :
           \E j \in 1..Len(sessionHeap[s].participants) : get_records(s, j)
    \/ \E e \in ChangingFiles : add_file(e[1], e[2])
    \/ \E e \in ChangingFiles : remove_file(e[1], e[2])
    \/ \E e \in NewDirectories : mkdir(e[1], e[2])

SpecEnv == InitEnv /\ [][NextEnv]_vars

(***************************************************************************)
(* The claims.                                                             *)
(***************************************************************************)
IsHidden(n) == startswith(n, ".")
FileName(path) == split_last(path, "/")
BaseNames(names) == {split_first(n, ".") : n \in names}
IsPrefix(s, t) == Len(s) <= Len(t) /\ SubSeq(t, 1, Len(s)) = s
Count(s, x) == Cardinality({i \in 1..Len(s) : s[i] = x})

\* the Participant object a get_records call was made on
Callee == sessionHeap[ret.self[1]].participants[ret.self[2]]

\* the spec's scenario: audio S1/P1/{item1.wav, item2.wav},
\* transcripts S1/P1/{item1.docx, item3.docx}
ScenarioTree ==
    /\ fs[AudioFolder] = {"S1"} /\ fs[TranscriptFolder] = {"S1"}
    /\ fs["data/audios/S1"] = {"P1"} /\ fs["data/transcripts/S1"] = {"P1"}
    /\ fs["data/audios/S1/P1"] = {"item1.wav", "item2.wav"}
    /\ fs["data/transcripts/S1/P1"] = {"item1.docx", "item3.docx"}

\* a scored record's session, participant and item are each named on both sides
NamedOnBothSides(r) ==
    LET p_a == os_path_dirname(r.audio_path)
        p_t == os_path_dirname(r.transcript_path)
        s_a == os_path_dirname(p_a)
        s_t == os_path_dirname(p_t)
    IN /\ os_path_dirname(s_a) = AudioFolder /\ os_path_dirname(s_t) = TranscriptFolder
       /\ FileName(s_a) = FileName(s_t)
       /\ FileName(s_a) \in fs[AudioFolder] \cap fs[TranscriptFolder]
       /\ FileName(p_a) = FileName(p_t)
       /\ FileName(p_a) \in fs[s_a] \cap fs[s_t]
       /\ record_name(r) \in BaseNames(fs[p_a]) \cap BaseNames(fs[p_t])

\* C1: a session, participant or item named on one side only yields no record that
\* process scores and no line of the report it returns; in the spec's scenario the
\* report is the one line of item1.
C1_OneSidedNeverMatched ==
    ret.op = "process" =>
        /\ \A i \in 1..Len(ret.scored) : NamedOnBothSides(ret.scored[i])
        /\ \A k \in 1..Len(ret.val) :
               \E i \in 1..Len(ret.scored) :
                   IsPrefix(record_name(ret.scored[i]) \o " - Word Error Rate", ret.val[k])
        /\ Len(ret.val) <= Len(ret.scored)
        /\ (ScenarioTree /\ failing = {}) =>
               /\ ~ret.raised
               /\ Len(ret.val) = 1
               /\ IsPrefix("item1 - ", ret.val[1])

C1_Witness ==
    /\ ret.op = "process"
    /\ ScenarioTree
    /\ ~ret.raised
    /\ Len(ret.val) = 1

\* C2 as stated: every later call of get_records or get_participants on an object
\* returns what the object's first call returned.
C2_CachedForLifetime ==
    /\ ret.op = "get_records" =>
           ret.val = hist.records[ret.self[1]][ret.self[2]][1]
    /\ ret.op = "get_participants" =>
           ret.val = hist.participants[ret.self][1]

\* C3 as stated: a later get_sessions call returns the Session objects the first
\* call returned, so it neither lists the roots again nor drops the participant
\* caches built under them.
C3_SessionsCached ==
    ret.op = "get_sessions" => ret.val = hist.sessions[1]

\* C4: a process call that follows another on the same trees returns the same lines
\* (or fails as it did), whatever the orders in which the two calls enumerated the
\* participants, and the file it writes holds those lines.
C4_RerunIdentical ==
    (ret.op = "process" /\ ret.prev # None) =>
        /\ ret.raised = ret.prev[1].raised
        /\ ret.val = ret.prev[1].val
        /\ (ret.write_to_file /\ ~ret.raised) =>
               files[output_path(ret.output_file)] = Some(ret.prev[1].val)

C4_Witness ==
    /\ ret.op = "process"
    /\ ret.prev # None
    /\ ret.prev[1].po # ret.po
    /\ Len(ret.val) >= 2
    /\ ret.val[1] # ret.val[2]

\* the records reachable through get_sessions -> get_participants -> get_records
ReachableRecords ==
    UNION {UNION {Range(Participant_records(p)) :
                    p \in Range(Session_participants(s, sorted(participant_names(s))))} :
           s \in Range(DataProcessor_sessions)}

\* C5: the lines process returns are in non-decreasing order, one per reachable
\* record (none lost, none repeated), the same whatever write_to_file is; the file
\* is written only when write_to_file holds, and then holds exactly these lines.
C5_SortedOnePerRecord ==
    (ret.op = "process" /\ ~ret.raised) =>
        /\ \A i \in 1..(Len(ret.val) - 1) : ~StrLess(ret.val[i + 1], ret.val[i])
        /\ Len(ret.val) = Cardinality(ReachableRecords)
        /\ \A r \in ReachableRecords :
               Count(ret.val, wer_output(r))
                   = Cardinality({q \in ReachableRecords : wer_output(q) = wer_output(r)})
        /\ ret.write_to_file =>
               files = [ret.before EXCEPT ![output_path(ret.output_file)] = Some(ret.val)]
        /\ ~ret.write_to_file => files = ret.before

C5_Witness ==
    /\ ret.op = "process"
    /\ ~ret.raised
    /\ ret.write_to_file
    /\ \E i \in 1..(Len(ret.val) - 1) : ret.val[i] = ret.val[i + 1]
    /\ \E i \in 1..(Len(ret.val) - 1) : ret.val[i] # ret.val[i + 1]
    /\ files[output_path(ret.output_file)] = Some(ret.val)

\* C6: a process call in which the scoring of a record raises scores no record after
\* it, returns no lines and leaves every report file as it was; a file changes only
\* in a call that scored every record.
C6_WriteOnlyAfterScoring ==
    ret.op = "process" =>
        \A recs \in {process_records(DataProcessor_sessions, ret.po)} :
            /\ ret.scored = SubSeq(recs, 1, Len(ret.scored))
            /\ \A i \in 1..(Len(ret.scored) - 1) : cal_wer(recs[i]) # None
            /\ ret.raised <=> (ret.scored # <<>> /\ cal_wer(recs[Len(ret.scored)]) = None)
            /\ ret.raised => (files = ret.before /\ ret.val = <<>>)
            /\ ~ret.raised => ret.scored = recs
            /\ files # ret.before => (~ret.raised /\ ret.write_to_file)

C6_Witness ==
    /\ ret.op = "process"
    /\ ret.raised
    /\ ret.write_to_file
    /\ Len(ret.scored) >= 2
    /\ Len(ret.scored) < Len(process_records(DataProcessor_sessions, ret.po))
    /\ files["report.txt"] = Some(<<"old">>)
    /\ ret.output_file = "report.txt"

\* C7: no record of get_records comes from a hidden entry or from an audio entry that
\* contains the exclusion substring: its two file names are not hidden, its audio
\* file name and its record_name do not contain the substring, its record_name is
\* not empty, and an unfiltered entry of each side has its basename.
C7_FilteredNeverMatched ==
    ret.op = "get_records" =>
        \A i \in 1..Len(ret.val) :
            LET r == ret.val[i] IN
            /\ record_name(r) # ""
            /\ ~contains(ExcludePattern, record_name(r))
            /\ ~IsHidden(FileName(r.audio_path))
            /\ ~contains(ExcludePattern, FileName(r.audio_path))
            /\ ~IsHidden(FileName(r.transcript_path))
            /\ FileName(r.audio_path) # "item1_ASA24_.wav"
            /\ \E a \in os_listdir(Callee.audio_foler) :
                   /\ ~IsHidden(a) /\ ~contains(ExcludePattern, a)
                   /\ split_first(a, ".") = record_name(r)
            /\ \E t \in os_listdir(Callee.transcript_foler) :
                   ~IsHidden(t) /\ split_first(t, ".") = record_name(r)

C7_Witness ==
    /\ ret.op = "get_records"
    /\ "item1_ASA24_.wav" \in os_listdir(Callee.audio_foler)
    /\ "item1_ASA24_.docx" \in os_listdir(Callee.transcript_foler)
    /\ Len(ret.val) = 1

\* the names of the Participant objects a get_participants call returned
ReturnedParticipantNames ==
    [j \in 1..Len(ret.val) |->
        FileName(sessionHeap[ret.self].participants[ret.val[j][2]].audio_foler)]

\* C8 as stated: get_participants returns one Participant for every name of the plain
\* intersection of the two listings, hidden names included.
C8_NoHiddenFilter ==
    ret.op = "get_participants" =>
        Range(ReturnedParticipantNames)
            = os_listdir(sessionHeap[ret.self].audio_folder)
                  \cap os_listdir(sessionHeap[ret.self].transcript_folder)

\* C8 amended: get_participants returns one Participant, built from the two paths of
\* that name, for every name of the intersection of the two listings that does not
\* start with ".".
C8_HiddenFiltered ==
    ret.op = "get_participants" =>
        LET self == sessionHeap[ret.self]
            names == ReturnedParticipantNames
        IN /\ Range(names) = {n \in os_listdir(self.audio_folder)
                                       \cap os_listdir(self.transcript_folder) : ~IsHidden(n)}
           /\ Cardinality(Range(names)) = Len(names)
           /\ \A j \in 1..Len(names) :
                  /\ ret.val[j] = <<ret.self, j>>
                  /\ self.participants[j].audio_foler
                         = os_path_join(self.audio_folder, names[j])
                  /\ self.participants[j].transcript_foler
                         = os_path_join(self.transcript_folder, names[j])

C8_Witness ==
    /\ ret.op = "get_participants"
    /\ ".P" \in os_listdir(sessionHeap[ret.self].audio_folder)
                   \cap os_listdir(sessionHeap[ret.self].transcript_folder)
    /\ Len(ret.val) = 2

\* C9: get_sessions returns one Session, built from the two paths of that name, for
\* every name of the intersection of the two root listings that does not start with
\* ".", in strictly increasing order of name; an empty intersection gives an empty
\* list.
C9_SessionsSortedIntersection ==
    ret.op = "get_sessions" =>
        LET names == [i \in 1..Len(ret.val) |-> Session_name(sessionHeap[ret.val[i]])]
        IN /\ Range(names) = {n \in os_listdir(AudioFolder) \cap os_listdir(TranscriptFolder) :
                                 ~IsHidden(n)}
           /\ \A i \in 1..(Len(names) - 1) : StrLess(names[i], names[i + 1])
           /\ \A i \in 1..Len(names) :
                  /\ sessionHeap[ret.val[i]].audio_folder
                         = os_path_join(AudioFolder, names[i])
                  /\ sessionHeap[ret.val[i]].transcript_folder
                         = os_path_join(TranscriptFolder, names[i])

C9_Witness ==
    /\ ret.op = "get_sessions"
    /\ Len(ret.val) = 2
    /\ ".S" \in os_listdir(AudioFolder) \cap os_listdir(TranscriptFolder)

\* C10 as stated: the audio file and the transcript file of every record of
\* get_records are entries of the filtered audio listing and of the transcript
\* listing.
C10_RecordFilesListed ==
    ret.op = "get_records" =>
        \A i \in 1..Len(ret.val) :
            /\ FileName(ret.val[i].audio_path)
                   \in Range(get_audio_files(Callee, ExcludePattern))
            /\ FileName(ret.val[i].transcript_path) \in Range(get_transcript_files(Callee))
====
